---- MODULE Spec2Model ----
(***************************************************************************)
(* Parking-lot ticket service: ticket creation, lookup, update and removal *)
(* against the DynamoDB table (ParkingLotService), the exit handler        *)
(* (ParkingHandler.PostExit), the fee calculation                          *)
(* (ParkingLotService.CalculateCharge, in the 15-minute and in the older   *)
(* per-minute tariff) and the Lambda adapter (APIAdapter).                 *)
(*                                                                         *)
(* Time.  A time.Duration / time.Time is a 64-bit count of nanoseconds.    *)
(* It is kept here as two limbs, [ms |-> whole milliseconds, ns |-> the    *)
(* remaining nanoseconds, 0 .. NsPerMs-1], so that every value stays       *)
(* inside the integer range of the model checker; the represented value is *)
(* ms * NsPerMs + ns and all comparisons and sums are exact.               *)
(*                                                                         *)
(* Floating point.  CalculateCharge works on float64 minutes.  On every    *)
(* duration the model draws (and on all durations up to several years,     *)
(* checked by emulating the IEEE-754 double operations of the Go code) the *)
(* float64 comparisons, the subtraction of the epsilon, math.Ceil and      *)
(* math.Round give the same result as exact arithmetic on nanoseconds, so  *)
(* the operators below compute with exact nanosecond values.  Money is     *)
(* kept in hundredths (2.50 is 250); float32(n * 2.5) is exact.            *)
(***************************************************************************)
EXTENDS Integers, Sequences, FiniteSets, TLC

(***************************************************************************)
(* Bounds of the model.                                                    *)
(***************************************************************************)
\* number of distinct UUIDs the generator can hand out
MaxTickets == 2
\* number of 15-minute increments the probed elapsed times span
MaxIncrements == 4
\* number of calls (entries, lookups, exits, removals) a behaviour starts
MaxCalls == 3

Workers == {"w1", "w2"}
\* the (plate, parkingLot) pairs vehicles enter with
Entries == {<<"ABC-123", 5>>, <<"XYZ-789", 123>>}

(***************************************************************************)
(* Durations and instants.                                                 *)
(***************************************************************************)
NsPerMs == 1000000
MsPerMinute == 60000
MsPer15Min == 15 * MsPerMinute

Dur(ms, ns) == [ms |-> ms, ns |-> ns]

DurLess(a, b) == a.ms < b.ms \/ (a.ms = b.ms /\ a.ns < b.ns)

DurLeq(a, b) == ~DurLess(b, a)

DurAdd(a, b) ==
    IF a.ns + b.ns >= NsPerMs
    THEN Dur(a.ms + b.ms + 1, a.ns + b.ns - NsPerMs)
    ELSE Dur(a.ms + b.ms, a.ns + b.ns)

DurSub(a, b) ==
    IF a.ns >= b.ns
    THEN Dur(a.ms - b.ms, a.ns - b.ns)
    ELSE Dur(a.ms - b.ms - 1, a.ns + NsPerMs - b.ns)

ZeroDur == Dur(0, 0)

\* time.Since(entryTime), evaluated when the clock reads now
Since(entryTime, now) == DurSub(now, entryTime)

(***************************************************************************)
(* CalculateCharge.                                                        *)
(***************************************************************************)
\* const zeroChargeThresholdMinutes = (1.0e-6) / 60.0 : one microsecond
zeroChargeThresholdMinutes == Dur(0, 1000)

\* const boundaryEpsilonMinutes = 0.001 / 60.0 : one millisecond
boundaryEpsilonMinutes == Dur(1, 0)

\* price of one 15-minute increment, in hundredths: numberOf15MinIncrements * 2.5
IncrementPrice == 250

\* totalMinutes < zeroChargeThresholdMinutes
IsZeroChargeNonPositive(totalMinutes) == DurLeq(totalMinutes, ZeroDur)

IsZeroChargeMagnitude(totalMinutes) ==
    /\ DurLess(totalMinutes, zeroChargeThresholdMinutes)
    /\ DurLess(DurSub(ZeroDur, totalMinutes), zeroChargeThresholdMinutes)

IsZeroCharge(totalMinutes) == DurLess(totalMinutes, zeroChargeThresholdMinutes)

\* adjustedMinutes := totalMinutes - boundaryEpsilonMinutes, clamped at 0
AdjustedMinutesPlusEpsilon(totalMinutes) ==
    DurAdd(totalMinutes, boundaryEpsilonMinutes)

AdjustedMinutesNoEpsilon(totalMinutes) == totalMinutes

AdjustedMinutes(totalMinutes) ==
    LET adjusted == DurSub(totalMinutes, boundaryEpsilonMinutes)
    IN  IF DurLess(adjusted, ZeroDur) THEN ZeroDur ELSE adjusted

\* math.Ceil(adjustedMinutes / 15.0), adjustedMinutes >= 0
CeilIncrementsFloor(adjustedMinutes) == adjustedMinutes.ms \div MsPer15Min

CeilIncrements(adjustedMinutes) ==
    (adjustedMinutes.ms \div MsPer15Min)
      + (IF adjustedMinutes.ms % MsPer15Min > 0 \/ adjustedMinutes.ns > 0
         THEN 1 ELSE 0)

\* if numberOf15MinIncrements == 0 && totalMinutes >= threshold { ... = 1 }
\* the 5.00 minimum of the per-minute tariff, in increments
MinimumIncrementsLegacy == 500 \div IncrementPrice

MinimumIncrements == 1

\* int(math.Round(totalMinutes)): nearest whole minute, halves away from zero
RoundMinutesTruncate(totalMinutes) ==
    IF totalMinutes.ms >= 0
    THEN totalMinutes.ms \div MsPerMinute
    ELSE 0 - (DurSub(ZeroDur, totalMinutes).ms \div MsPerMinute)

RoundMinutes(totalMinutes) ==
    IF totalMinutes.ms >= 0
    THEN (totalMinutes.ms + (MsPerMinute \div 2)) \div MsPerMinute
    ELSE LET neg == DurSub(ZeroDur, totalMinutes)
         IN  0 - ((neg.ms + (MsPerMinute \div 2)) \div MsPerMinute)

\* func (s *ParkingLotService) CalculateCharge(entryTime) (int, float32)
CalculateCharge(entryTime, now) ==
    LET totalMinutes == Since(entryTime, now)
    IN  IF IsZeroCharge(totalMinutes)
        THEN [minutes |-> 0, charge |-> 0]
        ELSE LET ceil == CeilIncrements(AdjustedMinutes(totalMinutes))
                 numberOf15MinIncrements ==
                     IF ceil = 0 /\ ~IsZeroCharge(totalMinutes)
                     THEN MinimumIncrements ELSE ceil
             IN  [minutes |-> RoundMinutes(totalMinutes),
                  charge  |-> numberOf15MinIncrements * IncrementPrice]

(***************************************************************************)
(* CalculateCharge of the per-minute tariff (internal/service/parking.go). *)
(***************************************************************************)
\* the 5.0 of max(5.0, ...), in hundredths
MinimumCharge == 500

\* the 0.10 of float64(minutes)*0.10, in hundredths
MinutePrice == 10

\* int(duration.Minutes()): the conversion drops the fraction, towards zero
WholeMinutes(duration) ==
    IF duration.ms >= 0
    THEN duration.ms \div MsPerMinute
    ELSE 0 - (DurSub(ZeroDur, duration).ms \div MsPerMinute)

\* func max(a, b float64) float64
maxSecondOnly(a, b) == b

max(a, b) == IF a > b THEN a ELSE b

\* func (s *ParkingLotService) CalculateCharge(entryTime) (int, float32)
CalculateChargePerMinute(entryTime, now) ==
    LET duration == Since(entryTime, now)
        minutes == WholeMinutes(duration)
    IN  [minutes |-> minutes,
         charge  |-> max(MinimumCharge, minutes * MinutePrice)]

(***************************************************************************)
(* Tickets, their DynamoDB items and the table.                            *)
(***************************************************************************)
TicketStatusIn == "in"
TicketStatusOut == "out"

UUIDs == 1 .. MaxTickets

\* uuid.UUID.String(): the canonical text of a UUID, distinct per UUID
UUIDString(u) == ToString(u)

TicketIDs == {UUIDString(u) : u \in UUIDs}

\* &model.ParkingTicket{}: every field at its zero value
ZeroTicket ==
    [TicketID |-> "", Plate |-> "", ParkingLot |-> 0, EntryTime |-> ZeroDur,
     Status |-> "", Charge |-> 0]

\* a nil item / nil attribute map
NoItem == [a \in {} |-> a]

MsPerSecond == 1000
NsPerSecond == MsPerSecond * NsPerMs

\* the encoder's text of a time.Time, time.RFC3339Nano: whole seconds and
\* the fraction of a second, to the nanosecond
FormatTimeSeconds(t) == [sec |-> t.ms \div MsPerSecond, nsec |-> 0]

FormatTime(t) ==
    [sec  |-> t.ms \div MsPerSecond,
     nsec |-> (t.ms % MsPerSecond) * NsPerMs + t.ns]

\* the decoder's time.Parse of that text
ParseTime(text) ==
    Dur(text.sec * MsPerSecond + (text.nsec \div NsPerMs),
        text.nsec % NsPerMs)

\* attributevalue.MarshalMap under the dynamodbav tags of ParkingTicket:
\* status and charge are omitempty and are left out at their zero value
MarshalMap(t) ==
    LET required == [ticketId   |-> [S |-> t.TicketID],
                     plate      |-> [S |-> t.Plate],
                     parkingLot |-> [N |-> t.ParkingLot],
                     entryTime  |-> [S |-> FormatTime(t.EntryTime)]]
        status == IF t.Status = "" THEN NoItem
                  ELSE ("status" :> [S |-> t.Status])
        charge == IF t.Charge = 0 THEN NoItem
                  ELSE ("charge" :> [N |-> t.Charge])
    IN  required @@ status @@ charge

\* attributevalue.UnmarshalMap into a zero ParkingTicket: attributes that are
\* absent leave the field at its zero value
UnmarshalMap(item) ==
    [TicketID   |-> IF "ticketId" \in DOMAIN item
                    THEN item["ticketId"].S ELSE "",
     Plate      |-> IF "plate" \in DOMAIN item THEN item["plate"].S ELSE "",
     ParkingLot |-> IF "parkingLot" \in DOMAIN item
                    THEN item["parkingLot"].N ELSE 0,
     EntryTime  |-> IF "entryTime" \in DOMAIN item
                    THEN ParseTime(item["entryTime"].S) ELSE ZeroDur,
     Status     |-> IF "status" \in DOMAIN item THEN item["status"].S ELSE "",
     Charge     |-> IF "charge" \in DOMAIN item THEN item["charge"].N ELSE 0]

\* hash_key of the parkingTickets table
HashKey == "ticketId"

\* the attribute GetTicket and RemoveTicket name in their Key map
LookupKeyAttribute == "TicketID"

\* key := map[string]types.AttributeValue{"TicketID": &...MemberS{Value: id}}
LookupKey(ticketID) == (LookupKeyAttribute :> [S |-> ticketID])

\* The DynamoDBClient the service is built with: the dynamodb.Client on the
\* deployed table, which checks every Key against the key schema, or the
\* stand-in the interface exists for, which hands back the record whose id
\* is the value of the Key whatever the attribute is called.
ClientKinds == {"table", "standin"}

\* the id a Key map asks for: the value of its only attribute
KeyValue(key) == key[CHOOSE a \in DOMAIN key : TRUE].S

\* does the client accept this Key
KeyAccepted(kind, key) == kind = "standin" \/ DOMAIN key = {HashKey}

\* PutItem: the item replaces the record under its hash-key value; an item
\* without the hash-key attribute is rejected
PutItemFirstWriteWins(table, item) ==
    IF HashKey \notin DOMAIN item
    THEN [err |-> TRUE, table |-> table]
    ELSE [err |-> FALSE, table |-> table @@ (item[HashKey].S :> item)]

PutItemReplacingTable(table, item) ==
    IF HashKey \notin DOMAIN item
    THEN [err |-> TRUE, table |-> table]
    ELSE [err |-> FALSE, table |-> (item[HashKey].S :> item)]

PutItem(table, item) ==
    IF HashKey \notin DOMAIN item
    THEN [err |-> TRUE, table |-> table]
    ELSE [err |-> FALSE, table |-> (item[HashKey].S :> item) @@ table]

\* GetItem: a Key the client does not accept is rejected
\* (ValidationException); an absent record is a nil Item
GetItem(kind, table, key) ==
    IF ~KeyAccepted(kind, key)
    THEN [err |-> TRUE, item |-> NoItem]
    ELSE IF KeyValue(key) \in DOMAIN table
         THEN [err |-> FALSE, item |-> table[KeyValue(key)]]
         ELSE [err |-> FALSE, item |-> NoItem]

\* DeleteItem: removes the record the Key names; no record is not an error
DeleteItemDroppingTable(kind, table, key) ==
    IF ~KeyAccepted(kind, key)
    THEN [err |-> TRUE, table |-> table]
    ELSE [err |-> FALSE, table |-> NoItem]

DeleteItem(kind, table, key) ==
    IF ~KeyAccepted(kind, key)
    THEN [err |-> TRUE, table |-> table]
    ELSE [err |-> FALSE,
          table |-> [k \in DOMAIN table \ {KeyValue(key)} |-> table[k]]]

(***************************************************************************)
(* Go maps and the API Gateway proxy events of the Lambda adapter.         *)
(***************************************************************************)
\* a map[string]string: the nil map, or a made map with its entries
NilMap == [isNil |-> TRUE, entries |-> NoItem]

MakeMap(entries) == [isNil |-> FALSE, entries |-> entries]

\* m[k]: the zero value "" when k is absent, of a nil map too
MapGet(m, k) == IF k \in DOMAIN m.entries THEN m.entries[k] ELSE ""

\* m[k] = v on a made map
MapSet(m, k, v) == [m EXCEPT !.entries = (k :> v) @@ @]

\* req.Headers["X-Request-ID"]
RequestIDHeader == "X-Request-ID"

\* response.Headers["X-Request-Id"]
ResponseIDHeader == "X-Request-Id"

\* &service.ParkingLotService{}: no client, no logger, no marshallers
ZeroValueService == "none"

\* parkingService, err := service.NewParkingLotService(...); on an error the
\* adapter goes on with the zero-value service
NewAPIAdapter(kind, createErr) ==
    IF createErr THEN ZeroValueService ELSE kind

\* api.RegisterHandlers(router, parkingHandler) and router.NoRoute
Route(method, path) ==
    IF method = "POST" /\ path = "/entry" THEN "PostEntry"
    ELSE IF method = "POST" /\ path = "/exit" THEN "PostExit"
    ELSE "NoRoute"

\* Both handlers call the service first thing, and every method of the service
\* starts with s.log.WithContext(ctx): on the zero-value service s.log is a
\* nil interface and the call panics.
HandlerPanics(kind, route) == kind = ZeroValueService /\ route /= "NoRoute"

\* the status the router can answer with: NoRoute writes 404, gin.Recovery
\* turns a panic of a handler into 500, PostEntry answers 200 and PostExit
\* 200, 404 or 500
HandlerStatuses(kind, route) ==
    IF route = "NoRoute" THEN {404}
    ELSE IF HandlerPanics(kind, route) THEN {500}
    ELSE IF route = "PostEntry" THEN {200}
    ELSE {200, 404, 500}

\* the zero events.APIGatewayProxyResponse
NoResponse == [StatusCode |-> 0, Headers |-> NilMap]

(***************************************************************************)
(* State.                                                                  *)
(***************************************************************************)
VARIABLES
    now,        \* the wall clock
    store,      \* the parkingTickets table: hash-key value -> item
    assigned,   \* the UUIDs uuid.New() has returned, in order
    pc,         \* per call slot: where the call in flight stands
    req,        \* per call slot: the arguments of the call
    local,      \* per call slot: the locals of the call in flight
    ret,        \* per call slot: what the last finished call returned
    written,    \* ticket id -> ticket returned by a CreateTicket that stored it
    client,     \* the kind of DynamoDBClient the service was built with
    resp,       \* per call slot: the HTTP response of the last PostExit
    calls,      \* number of calls started so far
    attempts,   \* per call slot: store operations the call has issued
    proxy,      \* the last request the Lambda adapter proxied
    probe,      \* the last CalculateCharge evaluation
    prevProbe   \* the CalculateCharge evaluation before it

vars ==
    <<now, store, assigned, pc, req, local, ret, written, client, resp, calls,
      attempts, proxy, probe, prevProbe>>

svcVars ==
    <<store, assigned, pc, req, local, ret, written, client, resp, calls,
      attempts>>

\* the instants the clock is observed at
Epoch == Dur(1000, 0)

ClockOffsets ==
    {ZeroDur, Dur(1, 999), Dur(MsPer15Min + 1, 1)}

ClockInstants == {DurAdd(Epoch, d) : d \in ClockOffsets}

NoReq == [op |-> "none", plate |-> "", parkingLot |-> 0, ticketID |-> ""]

NoLocal == [ticketID |-> 0, ticket |-> ZeroTicket, item |-> NoItem]

NoRet ==
    [op |-> "none", id |-> 0, ticket |-> ZeroTicket, isNil |-> TRUE,
     found |-> FALSE, outcome |-> "none", injected |-> FALSE,
     stored |-> FALSE]

\* no response written: the fields of api.ExitResponse and api.ErrorResponse
\* with the HTTP status, and what the handler saw on its way (found: the
\* ticket GetTicket handed it; stored: a record was in the table then;
\* at: the clock CalculateCharge read)
NoResp ==
    [status |-> 0, message |-> "", plate |-> "", parkingLot |-> 0,
     minutes |-> 0, charge |-> 0, ticketID |-> "", stored |-> FALSE,
     found |-> ZeroTicket, at |-> ZeroDur]

\* no store operation issued: the calls of PutItem, GetItem and DeleteItem
\* a service call has made on its client
NoAttempts == [reads |-> 0, writes |-> 0, deletes |-> 0]

\* one evaluation of CalculateCharge for an entry elapsed before the clock
Probe(elapsed, clock) ==
    LET r == CalculateCharge(DurSub(clock, elapsed), clock)
    IN  [elapsed |-> elapsed, minutes |-> r.minutes, charge |-> r.charge,
         evaluated |-> TRUE]

\* nothing proxied yet. served: ProxyWithContext was called; panicked: it
\* panicked before it returned; recovered: gin.Recovery caught a panic of
\* the routed handler
NoProxy ==
    [served |-> FALSE,
     request |-> [HTTPMethod |-> "", Path |-> "", Headers |-> NilMap],
     route |-> "NoRoute", panicked |-> FALSE, recovered |-> FALSE,
     response |-> NoResponse]

\* no evaluation of CalculateCharge yet
NoProbe ==
    [elapsed |-> ZeroDur, minutes |-> 0, charge |-> 0, evaluated |-> FALSE]

Init ==
    /\ now = Epoch
    /\ store = NoItem
    /\ assigned = <<>>
    /\ pc = [w \in Workers |-> "idle"]
    /\ req = [w \in Workers |-> NoReq]
    /\ local = [w \in Workers |-> NoLocal]
    /\ ret = [w \in Workers |-> NoRet]
    /\ written = NoItem
    /\ client \in ClientKinds
    /\ resp = [w \in Workers |-> NoResp]
    /\ calls = 0
    /\ attempts = [w \in Workers |-> NoAttempts]
    /\ proxy = NoProxy
    /\ probe = NoProbe
    /\ prevProbe = NoProbe

(***************************************************************************)
(* The clock.                                                              *)
(***************************************************************************)
Tick(t) ==
    /\ DurLess(now, t)
    /\ now' = t
    /\ UNCHANGED <<svcVars, probe, prevProbe, proxy>>

(***************************************************************************)
(* CreateTicket.                                                           *)
(***************************************************************************)
\* ticketID := uuid.New(): a version-4 UUID, never one handed out before.
\* The service treats ids as opaque, so of the values not handed out yet the
\* least stands for any of them.
NewTicketIDReused(issued) == UUIDs

NewTicketID(issued) ==
    LET unused == UUIDs \ {issued[i] : i \in 1 .. Len(issued)}
    IN  {u \in unused : \A v \in unused : u <= v}

\* ticket := &model.ParkingTicket{TicketID, Plate, ParkingLot, EntryTime}
NewTicket(ticketID, plate, parkingLot, clock) ==
    [TicketID |-> UUIDString(ticketID), Plate |-> plate,
     ParkingLot |-> parkingLot, EntryTime |-> clock,
     Status |-> "", Charge |-> 0]

\* entry of CreateTicket up to the ticket literal
CreateTicketStart(w, plate, parkingLot) ==
    /\ pc[w] = "idle"
    /\ calls < MaxCalls
    /\ calls' = calls + 1
    /\ attempts' = [attempts EXCEPT ![w] = NoAttempts]
    /\ resp' = [resp EXCEPT ![w] = NoResp]
    /\ \E ticketID \in NewTicketID(assigned) :
          /\ assigned' = Append(assigned, ticketID)
          /\ local' = [local EXCEPT ![w] =
                          [ticketID |-> ticketID,
                           ticket   |-> NewTicket(ticketID, plate,
                                                  parkingLot, now),
                           item     |-> NoItem]]
    /\ req' = [req EXCEPT ![w] = [op |-> "CreateTicket", plate |-> plate,
                                  parkingLot |-> parkingLot, ticketID |-> ""]]
    /\ ret' = [ret EXCEPT ![w] = NoRet]
    /\ pc' = [pc EXCEPT ![w] = "marshal"]
    /\ UNCHANGED <<now, store, written, client, probe, prevProbe, proxy>>

CreateTicketReturnNilOnError(w, outcome) ==
    [op |-> "CreateTicket", id |-> local[w].ticketID,
     ticket |-> IF outcome = "ok" THEN local[w].ticket ELSE ZeroTicket,
     isNil |-> outcome /= "ok", found |-> FALSE,
     outcome |-> outcome, injected |-> outcome /= "ok", stored |-> FALSE]

CreateTicketReturn(w, outcome) ==
    [op |-> "CreateTicket", id |-> local[w].ticketID,
     ticket |-> local[w].ticket, isNil |-> FALSE, found |-> FALSE,
     outcome |-> outcome, injected |-> outcome /= "ok", stored |-> FALSE]

\* item, err := s.marshalMap(ticket); on error the ticket is returned as is
CreateTicketMarshal(w, marshalErr) ==
    /\ pc[w] = "marshal"
    /\ IF marshalErr
       THEN /\ ret' = [ret EXCEPT ![w] =
                          CreateTicketReturn(w, "marshal_error")]
            /\ pc' = [pc EXCEPT ![w] = "idle"]
            /\ local' = [local EXCEPT ![w] = NoLocal]
       ELSE /\ local' = [local EXCEPT ![w].item = MarshalMap(local[w].ticket)]
            /\ pc' = [pc EXCEPT ![w] = "put"]
            /\ UNCHANGED ret
    /\ UNCHANGED <<now, store, assigned, req, written, client, resp, calls,
                   attempts, probe, prevProbe, proxy>>

\* _, err = s.client.PutItem(...); the error is logged, the ticket returned
CreateTicketPutItem(w, putErr) ==
    LET out == IF putErr THEN [err |-> TRUE, table |-> store]
               ELSE PutItem(store, local[w].item)
    IN  /\ pc[w] = "put"
        /\ store' = out.table
        /\ ret' = [ret EXCEPT ![w] =
                      CreateTicketReturn(w, IF out.err THEN "put_error"
                                            ELSE "ok")]
        /\ written' = IF out.err THEN written
                      ELSE (local[w].ticket.TicketID :> local[w].ticket)
                               @@ written
        /\ attempts' = [attempts EXCEPT ![w].writes = @ + 1]
        /\ pc' = [pc EXCEPT ![w] = "idle"]
        /\ local' = [local EXCEPT ![w] = NoLocal]
        /\ UNCHANGED <<now, assigned, req, client, resp, calls, probe,
                       prevProbe, proxy>>

(***************************************************************************)
(* GetTicket.                                                              *)
(***************************************************************************)
\* entry of GetTicket up to the Key map
GetTicketStart(w, ticketID) ==
    /\ pc[w] = "idle"
    /\ calls < MaxCalls
    /\ calls' = calls + 1
    /\ attempts' = [attempts EXCEPT ![w] = NoAttempts]
    /\ resp' = [resp EXCEPT ![w] = NoResp]
    /\ req' = [req EXCEPT ![w] = [op |-> "GetTicket", plate |-> "",
                                  parkingLot |-> 0, ticketID |-> ticketID]]
    /\ ret' = [ret EXCEPT ![w] = NoRet]
    /\ pc' = [pc EXCEPT ![w] = "get"]
    /\ UNCHANGED <<now, store, assigned, local, written, client, probe,
                   prevProbe, proxy>>

GetTicketReturn(w, ticket, found, outcome, injected) ==
    [op |-> "GetTicket", id |-> 0, ticket |-> ticket, isNil |-> ~found,
     found |-> found, outcome |-> outcome, injected |-> injected,
     stored |-> req[w].ticketID \in DOMAIN store]

\* result, err := s.client.GetItem(...) and what follows it
GetTicketGetItemIgnoringErrors(w, getErr, unmarshalErr) ==
    LET out == IF getErr THEN [err |-> TRUE, item |-> NoItem]
               ELSE GetItem(client, store, LookupKey(req[w].ticketID))
    IN  IF out.err
        THEN GetTicketReturn(w, ZeroTicket, TRUE, "get_error", getErr)
        ELSE IF out.item = NoItem
        THEN GetTicketReturn(w, ZeroTicket, FALSE, "not_found", FALSE)
        ELSE GetTicketReturn(w, UnmarshalMap(out.item), TRUE,
                             IF unmarshalErr THEN "unmarshal_error" ELSE "ok",
                             unmarshalErr)

GetTicketGetItem(w, getErr, unmarshalErr) ==
    LET out == IF getErr THEN [err |-> TRUE, item |-> NoItem]
               ELSE GetItem(client, store, LookupKey(req[w].ticketID))
    IN  IF out.err
        THEN GetTicketReturn(w, ZeroTicket, FALSE, "get_error", getErr)
        ELSE IF out.item = NoItem
        THEN GetTicketReturn(w, ZeroTicket, FALSE, "not_found", FALSE)
        ELSE IF unmarshalErr
        THEN GetTicketReturn(w, ZeroTicket, FALSE, "unmarshal_error", TRUE)
        ELSE GetTicketReturn(w, UnmarshalMap(out.item), TRUE, "ok", FALSE)

\* a call of GetTicket from outside the handler
GetTicketCall(w, getErr, unmarshalErr) ==
    /\ pc[w] = "get"
    /\ ret' = [ret EXCEPT ![w] = GetTicketGetItem(w, getErr, unmarshalErr)]
    /\ attempts' = [attempts EXCEPT ![w].reads = @ + 1]
    /\ pc' = [pc EXCEPT ![w] = "idle"]
    /\ UNCHANGED <<now, store, assigned, req, local, written, client, resp,
                   calls, probe, prevProbe, proxy>>

(***************************************************************************)
(* RemoveTicket.                                                           *)
(***************************************************************************)
\* entry of RemoveTicket up to the Key map
RemoveTicketStart(w, ticketID) ==
    /\ pc[w] = "idle"
    /\ calls < MaxCalls
    /\ calls' = calls + 1
    /\ attempts' = [attempts EXCEPT ![w] = NoAttempts]
    /\ req' = [req EXCEPT ![w] = [op |-> "RemoveTicket", plate |-> "",
                                  parkingLot |-> 0, ticketID |-> ticketID]]
    /\ ret' = [ret EXCEPT ![w] = NoRet]
    /\ resp' = [resp EXCEPT ![w] = NoResp]
    /\ pc' = [pc EXCEPT ![w] = "delete"]
    /\ UNCHANGED <<now, store, assigned, local, written, client, probe,
                   prevProbe, proxy>>

\* RemoveTicket has no result: an error of DeleteItem is logged only
RemoveTicketReturn(w, outcome, injected) ==
    [op |-> "RemoveTicket", id |-> 0, ticket |-> ZeroTicket, isNil |-> TRUE,
     found |-> FALSE, outcome |-> outcome, injected |-> injected,
     stored |-> req[w].ticketID \in DOMAIN store]

\* _, err := s.client.DeleteItem(...)
RemoveTicketDeleteItem(w, deleteErr) ==
    LET out == IF deleteErr THEN [err |-> TRUE, table |-> store]
               ELSE DeleteItem(client, store, LookupKey(req[w].ticketID))
    IN  /\ pc[w] = "delete"
        /\ store' = out.table
        /\ ret' = [ret EXCEPT ![w] =
                      RemoveTicketReturn(w, IF out.err THEN "delete_error"
                                            ELSE "ok", deleteErr)]
        /\ attempts' = [attempts EXCEPT ![w].deletes = @ + 1]
        /\ pc' = [pc EXCEPT ![w] = "idle"]
        /\ UNCHANGED <<now, assigned, req, local, written, client, resp,
                       calls, probe, prevProbe, proxy>>

(***************************************************************************)
(* UpdateTicket: marshals the ticket and puts it over the stored record;   *)
(* an error of either step is returned to the caller.                      *)
(***************************************************************************)
UpdateTicketMarshal(ticket, marshalErr) ==
    IF marshalErr THEN [err |-> TRUE, item |-> NoItem]
    ELSE [err |-> FALSE, item |-> MarshalMap(ticket)]

UpdateTicketPutItem(table, item, putErr) ==
    IF putErr THEN [err |-> TRUE, table |-> table]
    ELSE PutItem(table, item)

(***************************************************************************)
(* PostExit.                                                               *)
(***************************************************************************)
\* entry of PostExit up to the call of GetTicket
PostExitStart(w, ticketID) ==
    /\ pc[w] = "idle"
    /\ calls < MaxCalls
    /\ calls' = calls + 1
    /\ attempts' = [attempts EXCEPT ![w] = NoAttempts]
    /\ req' = [req EXCEPT ![w] = [op |-> "PostExit", plate |-> "",
                                  parkingLot |-> 0, ticketID |-> ticketID]]
    /\ ret' = [ret EXCEPT ![w] = NoRet]
    /\ resp' = [resp EXCEPT ![w] = NoResp]
    /\ pc' = [pc EXCEPT ![w] = "exit_get"]
    /\ UNCHANGED <<now, store, assigned, local, written, client, probe,
                   prevProbe, proxy>>

\* c.JSON(http.StatusNotFound, api.ErrorResponse{Message: "Ticket not found"})
TicketNotFoundAsServerError(r) ==
    [r EXCEPT !.status = 500, !.message = "Failed to update ticket"]

TicketNotFound(r) ==
    [r EXCEPT !.status = 404, !.message = "Ticket not found"]

\* c.JSON(http.StatusInternalServerError, api.ErrorResponse{...})
FailedToUpdateWithCharge(r) ==
    [r EXCEPT !.status = 500, !.message = "Failed to update ticket"]

FailedToUpdate(r) ==
    [r EXCEPT !.status = 500, !.message = "Failed to update ticket",
              !.minutes = 0, !.charge = 0]

\* c.JSON(http.StatusOK, api.ExitResponse{Plate, ParkingLot,
\* ParkedDurationMinutes, Charge})
ExitResponseWithoutLot(r, ticket) ==
    [r EXCEPT !.status = 200, !.plate = ticket.Plate]

ExitResponse(r, ticket) ==
    [r EXCEPT !.status = 200, !.plate = ticket.Plate,
              !.parkingLot = ticket.ParkingLot]

\* ticket, exists := h.service.GetTicket(...); if !exists { 404; return }
PostExitGetTicket(w, getErr, unmarshalErr) ==
    LET got == GetTicketGetItem(w, getErr, unmarshalErr)
        seen == [NoResp EXCEPT !.ticketID = req[w].ticketID,
                               !.stored = got.stored, !.found = got.ticket]
    IN  /\ pc[w] = "exit_get"
        /\ ret' = [ret EXCEPT ![w] = got]
        /\ attempts' = [attempts EXCEPT ![w].reads = @ + 1]
        /\ IF ~got.found
           THEN /\ resp' = [resp EXCEPT ![w] = TicketNotFound(seen)]
                /\ pc' = [pc EXCEPT ![w] = "idle"]
                /\ UNCHANGED local
           ELSE /\ resp' = [resp EXCEPT ![w] = seen]
                /\ local' = [local EXCEPT ![w].ticket = got.ticket]
                /\ pc' = [pc EXCEPT ![w] = "exit_charge"]
        /\ UNCHANGED <<now, store, assigned, req, written, client, calls,
                       probe, prevProbe, proxy>>

\* ticket.Status = model.TicketStatusOut; ticket.Charge = charge
SettleTicketKeepCharge(ticket, charge) ==
    [ticket EXCEPT !.Status = TicketStatusOut]

SettleTicketOnce(ticket, charge) ==
    IF ticket.Status = TicketStatusOut THEN ticket
    ELSE [ticket EXCEPT !.Status = TicketStatusOut, !.Charge = charge]

SettleTicketAccumulating(ticket, charge) ==
    [ticket EXCEPT !.Status = TicketStatusOut, !.Charge = @ + charge]

SettleTicket(ticket, charge) ==
    [ticket EXCEPT !.Status = TicketStatusOut, !.Charge = charge]

\* minutes, charge := h.service.CalculateCharge(ticket.EntryTime), the two
\* assignments to the ticket and the marshalling inside UpdateTicket
PostExitCalculateCharge(w, marshalErr) ==
    LET bill == CalculateCharge(local[w].ticket.EntryTime, now)
        ticket == SettleTicket(local[w].ticket, bill.charge)
        out == UpdateTicketMarshal(ticket, marshalErr)
        billed == [resp[w] EXCEPT !.minutes = bill.minutes,
                                  !.charge = bill.charge, !.at = now]
    IN  /\ pc[w] = "exit_charge"
        /\ IF out.err
           THEN /\ resp' = [resp EXCEPT ![w] = FailedToUpdate(billed)]
                /\ local' = [local EXCEPT ![w] = NoLocal]
                /\ pc' = [pc EXCEPT ![w] = "idle"]
           ELSE /\ resp' = [resp EXCEPT ![w] = billed]
                /\ local' = [local EXCEPT ![w].ticket = ticket,
                                          ![w].item = out.item]
                /\ pc' = [pc EXCEPT ![w] = "exit_put"]
        /\ UNCHANGED <<now, store, assigned, req, ret, written, client, calls,
                       attempts, probe, prevProbe, proxy>>

\* the PutItem inside UpdateTicket and the response that follows it
PostExitUpdateTicketRetrying(w, putErr) ==
    LET out == UpdateTicketPutItem(store, local[w].item, putErr)
        again == out.err /\ attempts[w].writes = 0
    IN  /\ pc[w] = "exit_put"
        /\ store' = out.table
        /\ attempts' = [attempts EXCEPT ![w].writes = @ + 1]
        /\ resp' = [resp EXCEPT ![w] =
                        IF again THEN resp[w]
                        ELSE IF out.err THEN FailedToUpdate(resp[w])
                        ELSE ExitResponse(resp[w], local[w].ticket)]
        /\ local' = [local EXCEPT ![w] = IF again THEN local[w] ELSE NoLocal]
        /\ pc' = [pc EXCEPT ![w] = IF again THEN "exit_put" ELSE "idle"]
        /\ UNCHANGED <<now, assigned, req, ret, written, client, calls, probe,
                       prevProbe, proxy>>

PostExitUpdateTicket(w, putErr) ==
    LET out == UpdateTicketPutItem(store, local[w].item, putErr)
    IN  /\ pc[w] = "exit_put"
        /\ store' = out.table
        /\ attempts' = [attempts EXCEPT ![w].writes = @ + 1]
        /\ resp' = [resp EXCEPT ![w] =
                        IF out.err THEN FailedToUpdate(resp[w])
                        ELSE ExitResponse(resp[w], local[w].ticket)]
        /\ local' = [local EXCEPT ![w] = NoLocal]
        /\ pc' = [pc EXCEPT ![w] = "idle"]
        /\ UNCHANGED <<now, assigned, req, ret, written, client, calls, probe,
                       prevProbe, proxy>>

(***************************************************************************)
(* The service under concurrent calls.                                     *)
(***************************************************************************)
\* the ticket ids callers ask for: every id handed out so far and one that
\* has not been handed out (such ids are interchangeable)
AskedTicketIDs ==
    {UUIDString(u) : u \in {v \in UUIDs : v <= Len(assigned) + 1}}

Next ==
    \/ \E t \in ClockInstants : Tick(t)
    \/ \E w \in Workers, e \in Entries : CreateTicketStart(w, e[1], e[2])
    \/ \E w \in Workers, marshalErr \in BOOLEAN :
          CreateTicketMarshal(w, marshalErr)
    \/ \E w \in Workers, putErr \in BOOLEAN : CreateTicketPutItem(w, putErr)
    \/ \E w \in Workers, ticketID \in AskedTicketIDs :
          GetTicketStart(w, ticketID)
    \/ \E w \in Workers, getErr \in BOOLEAN, unmarshalErr \in BOOLEAN :
          GetTicketCall(w, getErr, unmarshalErr)
    \/ \E w \in Workers, ticketID \in AskedTicketIDs :
          RemoveTicketStart(w, ticketID)
    \/ \E w \in Workers, deleteErr \in BOOLEAN :
          RemoveTicketDeleteItem(w, deleteErr)
    \/ \E w \in Workers, ticketID \in AskedTicketIDs :
          PostExitStart(w, ticketID)
    \/ \E w \in Workers, getErr \in BOOLEAN, unmarshalErr \in BOOLEAN :
          PostExitGetTicket(w, getErr, unmarshalErr)
    \/ \E w \in Workers, marshalErr \in BOOLEAN :
          PostExitCalculateCharge(w, marshalErr)
    \/ \E w \in Workers, putErr \in BOOLEAN : PostExitUpdateTicket(w, putErr)

Spec == Init /\ [][Next]_vars

(***************************************************************************)
(* CalculateCharge probed on its own: the elapsed times it is evaluated at *)
(* surround every 15-minute boundary, the epsilon and the threshold.       *)
(***************************************************************************)
ElapsedMsOffsets == {0 - 1, 0, 1, 29999, 30000, 300000}

ElapsedMs ==
    {n * MsPer15Min + o : n \in 0 .. MaxIncrements, o \in ElapsedMsOffsets}

ElapsedNs == {0, 1, 999, 1000, 999999}

ElapsedInputs == {Dur(ms, ns) : ms \in ElapsedMs, ns \in ElapsedNs}

\* a call of CalculateCharge with an entryTime that lies elapsed before now
CalculateChargeCall(elapsed) ==
    /\ prevProbe' = probe
    /\ probe' = Probe(elapsed, now)
    /\ UNCHANGED <<now, svcVars, proxy>>

NextCharge == \E elapsed \in ElapsedInputs : CalculateChargeCall(elapsed)

\* CalculateCharge touches neither the client nor the table
InitCharge == Init /\ client = "table"

SpecCharge == InitCharge /\ [][NextCharge]_vars

(***************************************************************************)
(* CalculateCharge of the per-minute tariff probed on its own, at the same *)
(* elapsed times: they reach from before the entry to past the 50 minutes  *)
(* at which 0.10 a minute overtakes the minimum.                           *)
(***************************************************************************)
ProbePerMinute(elapsed, clock) ==
    LET r == CalculateChargePerMinute(DurSub(clock, elapsed), clock)
    IN  [elapsed |-> elapsed, minutes |-> r.minutes, charge |-> r.charge,
         evaluated |-> TRUE]

CalculateChargePerMinuteCall(elapsed) ==
    /\ probe' = ProbePerMinute(elapsed, now)
    /\ UNCHANGED <<now, svcVars, proxy, prevProbe>>

NextPerMinute ==
    \E elapsed \in ElapsedInputs : CalculateChargePerMinuteCall(elapsed)

SpecPerMinute == InitCharge /\ [][NextPerMinute]_vars

(***************************************************************************)
(* Exits on a table that holds a ticket already: the service as the first  *)
(* entry leaves it, stored through the stand-in client at Epoch.  calls    *)
(* counts the calls started from there on.                                 *)
(***************************************************************************)
FirstCaller == CHOOSE w \in Workers : TRUE

FirstTicket ==
    NewTicket(CHOOSE u \in NewTicketID(<<>>) : TRUE, "ABC-123", 5, Epoch)

InitExit ==
    /\ now = Epoch
    /\ store = PutItem(NoItem, MarshalMap(FirstTicket)).table
    /\ assigned = <<CHOOSE u \in NewTicketID(<<>>) : TRUE>>
    /\ pc = [w \in Workers |-> "idle"]
    /\ req = [w \in Workers |->
                IF w = FirstCaller
                THEN [op |-> "CreateTicket", plate |-> FirstTicket.Plate,
                      parkingLot |-> FirstTicket.ParkingLot, ticketID |-> ""]
                ELSE NoReq]
    /\ local = [w \in Workers |-> NoLocal]
    /\ ret = [w \in Workers |->
                IF w = FirstCaller
                THEN [op |-> "CreateTicket",
                      id |-> CHOOSE u \in NewTicketID(<<>>) : TRUE,
                      ticket |-> FirstTicket, isNil |-> FALSE,
                      found |-> FALSE, outcome |-> "ok", injected |-> FALSE,
                      stored |-> FALSE]
                ELSE NoRet]
    /\ written = (FirstTicket.TicketID :> FirstTicket)
    /\ client = "standin"
    /\ resp = [w \in Workers |-> NoResp]
    /\ calls = 0
    /\ attempts = [w \in Workers |->
                     IF w = FirstCaller
                     THEN [NoAttempts EXCEPT !.writes = 1] ELSE NoAttempts]
    /\ proxy = NoProxy
    /\ probe = NoProbe
    /\ prevProbe = NoProbe

SpecExit == InitExit /\ [][Next]_vars

(***************************************************************************)
(* The Lambda adapter: NewAPIAdapter builds the service, ProxyWithContext  *)
(* serves one API Gateway event after the other.                           *)
(***************************************************************************)
Methods == {"GET", "POST"}

Paths == {"/entry", "/exit", "/nope"}

\* the ids callers send along
SuppliedRequestIDs == {"test-id-456", "test-id-789"}

\* the values uuid.New().String() returns
GeneratedRequestIDs == {"uuid-a", "uuid-b"}

\* the header maps of the events: none at all, an empty one, one without a
\* request id, and one with an empty or a supplied request id
RequestHeaders ==
    {NilMap, MakeMap(NoItem),
     MakeMap("Content-Type" :> "application/json"),
     MakeMap(RequestIDHeader :> "")}
      \union {MakeMap(RequestIDHeader :> id) : id \in SuppliedRequestIDs}

Requests ==
    [HTTPMethod : Methods, Path : Paths, Headers : RequestHeaders]

\* the headers the gin adapter hands back: none when it failed before the
\* router ran, else what the router wrote
RoutedHeaders == {NilMap, MakeMap("Content-Type" :> "application/json")}

InitAdapter ==
    /\ now = Epoch
    /\ store = NoItem
    /\ assigned = <<>>
    /\ pc = [w \in Workers |-> "idle"]
    /\ req = [w \in Workers |-> NoReq]
    /\ local = [w \in Workers |-> NoLocal]
    /\ ret = [w \in Workers |-> NoRet]
    /\ written = NoItem
    /\ client \in {NewAPIAdapter(kind, createErr) :
                       kind \in ClientKinds, createErr \in BOOLEAN}
    /\ resp = [w \in Workers |-> NoResp]
    /\ calls = 0
    /\ attempts = [w \in Workers |-> NoAttempts]
    /\ proxy = NoProxy
    /\ probe = NoProbe
    /\ prevProbe = NoProbe

\* func (a *APIAdapter) ProxyWithContext(ctx, req)
ProxyWithContext(request, generated, status, routedHeaders) ==
    LET supplied == MapGet(request.Headers, RequestIDHeader)
        requestID == IF supplied = "" THEN generated ELSE supplied
        route == Route(request.HTTPMethod, request.Path)
        headers == IF routedHeaders.isNil THEN MakeMap(NoItem)
                   ELSE routedHeaders
    IN  /\ calls < MaxCalls
        /\ calls' = calls + 1
        /\ status \in HandlerStatuses(client, route)
        /\ IF supplied = "" /\ request.Headers.isNil
           THEN \* req.Headers["X-Request-ID"] = requestID on a nil map
                proxy' = [served |-> TRUE, request |-> request,
                          route |-> route, panicked |-> TRUE,
                          recovered |-> FALSE, response |-> NoResponse]
           ELSE proxy' = [served |-> TRUE, request |-> request,
                          route |-> route, panicked |-> FALSE,
                          recovered |-> HandlerPanics(client, route),
                          response |->
                              [StatusCode |-> status,
                               Headers |-> MapSet(headers, ResponseIDHeader,
                                                  requestID)]]
        /\ UNCHANGED <<now, store, assigned, pc, req, local, ret, written,
                       client, resp, attempts, probe, prevProbe>>

NextAdapter ==
    \E request \in Requests, generated \in GeneratedRequestIDs,
       status \in {200, 404, 500}, routedHeaders \in RoutedHeaders :
        ProxyWithContext(request, generated, status, routedHeaders)

SpecAdapter == InitAdapter /\ [][NextAdapter]_vars

(***************************************************************************)
(* Properties.                                                             *)
(***************************************************************************)
Microseconds(n) == Dur(0, n * 1000)
Milliseconds(n) == Dur(n, 0)
Minutes(n) == Dur(n * MsPerMinute, 0)

Last(seq) == seq[Len(seq)]

Range(seq) == {seq[i] : i \in 1 .. Len(seq)}

\* a call in slot w returns in this step
Returns(w) == pc[w] /= "idle" /\ pc'[w] = "idle"

\* C1: the ticket CreateTicket returns, and the record it stored when the
\* write succeeded, has status "in" and charge 0.
C1_OpenTicketIsInWithZeroCharge ==
    \A w \in Workers :
        ret[w].op = "CreateTicket" =>
            /\ ret[w].ticket.Status = TicketStatusIn
            /\ ret[w].ticket.Charge = 0
            /\ (ret[w].outcome = "ok"
                    /\ ret[w].ticket.TicketID \in DOMAIN store) =>
                   LET rec == UnmarshalMap(store[ret[w].ticket.TicketID])
                   IN  rec.Status = TicketStatusIn /\ rec.Charge = 0

C3_CreateTicketBestEffort ==
    [][\A w \in Workers :
          (Returns(w) /\ ret'[w].op = "CreateTicket"
                      /\ ret'[w].outcome /= "ok") =>
              /\ store' = store
              /\ ret'[w].id = local[w].ticketID
              /\ ret'[w].id \in Range(assigned)
              /\ ~ret'[w].isNil
              /\ ret'[w].ticket.TicketID = UUIDString(ret'[w].id)
              /\ ret'[w].ticket.Plate = req[w].plate
              /\ ret'[w].ticket.ParkingLot = req[w].parkingLot]_vars

C3_Witness ==
    \E w, v \in Workers :
        /\ ret[w].op = "CreateTicket" /\ ret[w].outcome = "put_error"
        /\ ret[v].op = "CreateTicket" /\ ret[v].outcome = "marshal_error"
        /\ ret[w].ticket.TicketID \notin DOMAIN store
        /\ ret[v].ticket.TicketID \notin DOMAIN store
        /\ ret[w].ticket.Plate = req[w].plate

\* C4: after a CreateTicket whose write succeeded, GetTicket with the
\* returned id (and no store or decoding fault) finds the record and returns
\* the id, plate and lot CreateTicket returned.
C4_CreateThenGetRoundTrip ==
    \A w \in Workers :
        (/\ ret[w].op = "GetTicket"
         /\ ~ret[w].injected
         /\ ret[w].stored
         /\ req[w].ticketID \in DOMAIN written) =>
            /\ ret[w].found
            /\ ret[w].ticket.TicketID = written[req[w].ticketID].TicketID
            /\ ret[w].ticket.Plate = written[req[w].ticketID].Plate
            /\ ret[w].ticket.ParkingLot
                   = written[req[w].ticketID].ParkingLot

\* C5: under one microsecond of elapsed time (zero included) CalculateCharge
\* returns 0 minutes and charge 0.
C5_ZeroChargeUnderMicrosecond ==
    (probe.evaluated /\ DurLess(probe.elapsed, Microseconds(1))) =>
        probe.minutes = 0 /\ probe.charge = 0

C5_Witness ==
    /\ probe.evaluated
    /\ probe.elapsed = Dur(0, 999)
    /\ probe.minutes = 0
    /\ probe.charge = 0

\* the number of 15-minute increments the pricing rule asks for: the least
\* n >= 1 with (t - 1 ms) <= n * 15 min
PricedIncrements(t) ==
    CHOOSE n \in 1 .. MaxIncrements + 2 :
        /\ DurLeq(DurSub(t, Milliseconds(1)), Minutes(15 * n))
        /\ n = 1 \/ DurLess(Minutes(15 * (n - 1)), DurSub(t, Milliseconds(1)))

\* C6: from one microsecond on, charge = 2.50 * max(1, ceil((t - 1 ms) / 15
\* min)); 50 minutes is 4 increments, 10.00.
C6_ChargeIsCeilingOfAdjustedTime ==
    /\ (probe.evaluated /\ DurLeq(Microseconds(1), probe.elapsed)) =>
           probe.charge = 250 * PricedIncrements(probe.elapsed)
    /\ (probe.evaluated /\ probe.elapsed = Minutes(50)) =>
           probe.charge = 1000

C6_Witness ==
    /\ probe.evaluated
    /\ probe.elapsed = Minutes(50)
    /\ probe.charge = 1000

\* C7: exactly N * 15 minutes is charged N increments, not N + 1.
C7_ExactMultipleChargesN ==
    \A n \in 1 .. MaxIncrements :
        (probe.evaluated /\ probe.elapsed = Minutes(15 * n)) =>
            probe.charge = n * 250

C7_Witness ==
    /\ prevProbe.evaluated /\ probe.evaluated
    /\ prevProbe.elapsed = Minutes(15) /\ prevProbe.charge = 250
    /\ probe.elapsed = Minutes(30) /\ probe.charge = 500

C9_ChargeMonotone ==
    (prevProbe.evaluated /\ probe.evaluated
         /\ DurLeq(prevProbe.elapsed, probe.elapsed)) =>
        prevProbe.charge <= probe.charge

C9_Witness ==
    /\ prevProbe.evaluated /\ probe.evaluated
    /\ DurLess(prevProbe.elapsed, probe.elapsed)
    /\ prevProbe.charge = 250
    /\ probe.charge = 750

\* the whole minute nearest to t, halves upwards
NearestMinute(t) ==
    CHOOSE m \in 0 .. 15 * (MaxIncrements + 2) :
        /\ DurLeq(DurSub(Minutes(m), Dur(30000, 0)), t)
        /\ DurLess(t, DurAdd(Minutes(m), Dur(30000, 0)))

\* C10: from one microsecond on, the minutes reported are the raw elapsed
\* time rounded to the nearest minute, whatever the increments billed:
\* 14 min 59.999 s reports 15 minutes and bills one increment.
C10_MinutesAreRoundedRawElapsed ==
    /\ (probe.evaluated /\ DurLeq(Microseconds(1), probe.elapsed)) =>
           probe.minutes = NearestMinute(probe.elapsed)
    /\ (probe.evaluated /\ probe.elapsed = Dur(15 * MsPerMinute - 1, 0)) =>
           probe.minutes = 15 /\ probe.charge = 250

C10_Witness ==
    /\ probe.evaluated
    /\ probe.elapsed = Dur(15 * MsPerMinute - 1, 0)
    /\ probe.minutes = 15
    /\ probe.charge = 250

\* the stored record of a ticket id, decoded
Record(table, id) == UnmarshalMap(table[id])

\* the step in which the PostExit of slot w leaves GetTicket behind
ExitLooksUp(w) == pc[w] = "exit_get" /\ pc'[w] /= "exit_get"

\* the step in which the PostExit of slot w writes its response
ExitResponds(w) ==
    pc[w] \in {"exit_get", "exit_charge", "exit_put"} /\ pc'[w] = "idle"

\* a PostExit answered as for an unknown ticket: 404 "Ticket not found", no
\* minutes, no charge, nothing more to do, and the table as it was
AnsweredNotFound(w) ==
    /\ resp'[w].status = 404
    /\ resp'[w].message = "Ticket not found"
    /\ resp'[w].minutes = 0
    /\ resp'[w].charge = 0
    /\ pc'[w] = "idle"
    /\ store' = store

\* C11: a PostExit for a ticket id that has no record in the table answers
\* 404 "Ticket not found", computes no charge and leaves the table unchanged.
C11_ExitOfUnknownTicketIsNotFound ==
    [][\A w \in Workers :
          (ExitLooksUp(w) /\ req[w].ticketID \notin DOMAIN store) =>
              AnsweredNotFound(w)]_vars

C11_Witness ==
    \E w \in Workers :
        /\ req[w].op = "PostExit"
        /\ resp[w].status = 404
        /\ ret[w].outcome = "not_found"
        /\ ~resp[w].stored
        /\ store /= NoItem
        /\ pc[w] = "idle"

\* C12: when GetItem fails or the stored record cannot be decoded, GetTicket
\* returns (nil, false) as it does for a missing ticket, and a PostExit then
\* answers 404, charges nothing and leaves the table unchanged.
C12_ReadFaultsLookLikeNotFound ==
    [][\A w \in Workers :
          /\ (Returns(w) /\ req[w].op = "GetTicket"
                 /\ ret'[w].outcome \in {"get_error", "unmarshal_error"}) =>
                 (ret'[w].isNil /\ ~ret'[w].found
                     /\ ret'[w].ticket = ZeroTicket /\ store' = store)
          /\ (ExitLooksUp(w)
                 /\ ret'[w].outcome \in {"get_error", "unmarshal_error"}) =>
                 (ret'[w].isNil /\ ~ret'[w].found
                     /\ ret'[w].ticket = ZeroTicket /\ AnsweredNotFound(w))]_vars

C12_Witness ==
    \E w, v \in Workers :
        /\ req[w].op = "PostExit" /\ req[v].op = "PostExit"
        /\ ret[w].outcome = "unmarshal_error" /\ resp[w].stored
        /\ ret[v].outcome = "get_error" /\ ret[v].injected /\ resp[v].stored
        /\ resp[w].status = 404 /\ resp[v].status = 404
        /\ req[w].ticketID \in DOMAIN store

C14_StatusOpenThenClosed ==
    [][\A id \in DOMAIN store' :
          /\ Record(store', id).Status \in {TicketStatusIn, TicketStatusOut}
          /\ (id \in DOMAIN store
                 /\ Record(store, id).Status = TicketStatusOut) =>
                 Record(store', id).Status /= TicketStatusIn]_vars

\* C15: in every state the id, plate, lot and entry time of a stored record
\* are those CreateTicket gave the ticket.
C15_IdentityFieldsNeverChange ==
    \A id \in DOMAIN store :
        /\ id \in DOMAIN written
        /\ Record(store, id).TicketID = id
        /\ Record(store, id).TicketID = written[id].TicketID
        /\ Record(store, id).Plate = written[id].Plate
        /\ Record(store, id).ParkingLot = written[id].ParkingLot
        /\ Record(store, id).EntryTime = written[id].EntryTime

C15_Witness ==
    \E w \in Workers :
        /\ resp[w].status = 200
        /\ resp[w].found.Status = TicketStatusOut
        /\ resp[w].charge = 250
        /\ req[w].ticketID \in DOMAIN store
        /\ Record(store, req[w].ticketID).Status = TicketStatusOut
        /\ Record(store, req[w].ticketID).EntryTime = DurAdd(Epoch, Dur(1, 999))
        /\ Record(store, req[w].ticketID).Plate = written[req[w].ticketID].Plate

\* C16: once a stored record has status "out", no step changes its charge.
C16_ClosedChargeIsFinal ==
    [][\A id \in DOMAIN store \cap DOMAIN store' :
          Record(store, id).Status = TicketStatusOut =>
              Record(store', id).Charge = Record(store, id).Charge]_vars

\* C17: a PostExit for a record that already has status "out" finds it, and
\* when it answers 200 its charge is CalculateCharge of the entry time given
\* at creation and the clock of this call, and that charge is what it stores.
C17_ExitRecomputesCharge ==
    [][\A w \in Workers :
          /\ (ExitLooksUp(w) /\ req[w].ticketID \in DOMAIN store
                 /\ Record(store, req[w].ticketID).Status = TicketStatusOut
                 /\ ~ret'[w].injected) =>
                 (ret'[w].found /\ pc'[w] = "exit_charge")
          /\ (ExitResponds(w) /\ resp'[w].status = 200
                 /\ resp[w].found.Status = TicketStatusOut) =>
                 LET bill == CalculateCharge(written[req[w].ticketID].EntryTime,
                                             resp[w].at)
                 IN  /\ resp'[w].charge = bill.charge
                     /\ resp'[w].minutes = bill.minutes
                     /\ Record(store', req[w].ticketID).Charge
                            = bill.charge]_vars

C17_Witness ==
    \E w, v \in Workers :
        /\ resp[w].status = 200 /\ resp[v].status = 200
        /\ req[w].ticketID = req[v].ticketID
        /\ resp[w].found.Status /= TicketStatusOut
        /\ resp[v].found.Status = TicketStatusOut
        /\ resp[v].found.Charge = resp[w].charge
        /\ resp[w].charge = 250
        /\ resp[v].charge = 500
        /\ Record(store, req[v].ticketID).Charge = 500

\* C18: when two PostExit calls have both answered 200 for the same ticket
\* id, the record stored under it carries the charge of one of the two
\* responses, and each answering call has put its own charge over whatever
\* was stored, also over a record the other call settled meanwhile.
C18_LastExitWriteWins ==
    [][\A w, v \in Workers :
          (w /= v /\ resp'[w].status = 200 /\ resp'[v].status = 200
               /\ req'[w].ticketID = req'[v].ticketID
               /\ req'[w].ticketID \in DOMAIN store') =>
              /\ Record(store', req'[w].ticketID).Charge
                     \in {resp'[w].charge, resp'[v].charge}
              /\ ExitResponds(w) =>
                     Record(store', req'[w].ticketID).Charge
                         = resp'[w].charge]_vars

C18_Witness ==
    \E w, v \in Workers :
        /\ w /= v
        /\ resp[w].status = 200 /\ resp[v].status = 200
        /\ req[w].ticketID = req[v].ticketID
        /\ resp[w].found.Status /= TicketStatusOut
        /\ resp[v].found.Status /= TicketStatusOut
        /\ resp[w].charge /= resp[v].charge
        /\ DurLess(resp[v].at, resp[w].at)
        /\ req[w].ticketID \in DOMAIN store
        /\ Record(store, req[w].ticketID).Charge = resp[v].charge

C20_RemoveTicketRemovesRecord ==
    [][\A w \in Workers :
          /\ (Returns(w) /\ req[w].op = "RemoveTicket"
                 /\ ~ret'[w].injected) =>
                 /\ req[w].ticketID \notin DOMAIN store'
                 /\ req[w].ticketID \notin DOMAIN store => store' = store
          /\ (Returns(w) /\ req[w].op = "GetTicket"
                 /\ req[w].ticketID \notin DOMAIN store) =>
                 ~ret'[w].found]_vars

\* C21: the charge an exit settles depends on the ticket's entry time and on
\* the time of settlement only: when a PostExit answers 200 while another
\* has answered 200 for a ticket with the same entry time, with the clock
\* read at the same instant, its response and the record it stores carry the
\* charge of that other response, whichever tickets the two are and whatever
\* was stored for them before.
C21_ChargeDependsOnTimesOnly ==
    [][\A w, v \in Workers :
          (w /= v /\ ExitResponds(w) /\ resp'[w].status = 200
               /\ resp[v].status = 200
               /\ resp[v].found.EntryTime = resp[w].found.EntryTime
               /\ resp[v].at = resp[w].at) =>
              /\ resp'[w].charge = resp[v].charge
              /\ Record(store', req[w].ticketID).Charge = resp[v].charge]_vars

C21_Witness ==
    \E w, v \in Workers :
        /\ resp[w].status = 200 /\ resp[v].status = 200
        /\ req[w].ticketID /= req[v].ticketID
        /\ resp[w].plate /= resp[v].plate
        /\ resp[w].parkingLot /= resp[v].parkingLot
        /\ resp[w].found.EntryTime = resp[v].found.EntryTime
        /\ resp[w].at = resp[v].at
        /\ resp[w].charge = 250 /\ resp[v].charge = 250
        /\ Record(store, req[w].ticketID).Charge = 250
        /\ Record(store, req[v].ticketID).Charge = 250

C23_ExitResponseCarriesTicketAndBill ==
    \A w \in Workers :
        resp[w].status = 200 =>
            LET bill == CalculateCharge(resp[w].found.EntryTime, resp[w].at)
            IN  /\ resp[w].stored
                /\ resp[w].found.TicketID = req[w].ticketID
                /\ req[w].ticketID \in DOMAIN written
                /\ resp[w].found.EntryTime
                       = written[req[w].ticketID].EntryTime
                /\ resp[w].plate = written[req[w].ticketID].Plate
                /\ resp[w].parkingLot = written[req[w].ticketID].ParkingLot
                /\ resp[w].plate = resp[w].found.Plate
                /\ resp[w].parkingLot = resp[w].found.ParkingLot
                /\ resp[w].minutes = bill.minutes
                /\ resp[w].charge = bill.charge

C23_Witness ==
    \E w \in Workers, other \in DOMAIN store :
        /\ resp[w].status = 200
        /\ other /= req[w].ticketID
        /\ Record(store, other).Plate = "ABC-123"
        /\ resp[w].plate = "XYZ-789"
        /\ resp[w].parkingLot = 123
        /\ resp[w].minutes = 15
        /\ resp[w].charge = 500

\* C24: the CalculateCharge of the per-minute tariff returns the elapsed
\* time in whole minutes, the fraction dropped, and as charge 0.10 for each
\* of those minutes but never less than 5.00; whatever was parked for less
\* than a minute is charged 5.00.
C24_PerMinuteTariff ==
    probe.evaluated =>
        LET e == probe.elapsed
            m == probe.minutes
        IN  /\ IF e.ms >= 0
               THEN /\ m >= 0
                    /\ DurLeq(Minutes(m), e)
                    /\ DurLess(e, Minutes(m + 1))
               ELSE /\ m <= 0
                    /\ DurLeq(e, Minutes(m))
                    /\ DurLess(Minutes(m - 1), e)
            /\ probe.charge = IF 10 * m > 500 THEN 10 * m ELSE 500
            /\ (e.ms >= 0 /\ DurLess(e, Minutes(1))) => probe.charge = 500

C24_Witness ==
    /\ probe.evaluated
    /\ probe.elapsed = Dur(30000, 999)
    /\ probe.minutes = 0
    /\ probe.charge = 500

\* C25: every call of ProxyWithContext returns a response whose
\* X-Request-Id header is the X-Request-ID header of the request when that
\* is not empty, and is not empty when the request has none.
C25_ResponseCarriesRequestId ==
    proxy.served =>
        LET supplied == MapGet(proxy.request.Headers, RequestIDHeader)
            answered == MapGet(proxy.response.Headers, ResponseIDHeader)
        IN  /\ ~proxy.panicked
            /\ supplied /= "" => answered = supplied
            /\ supplied = "" => answered /= ""

\* C26: a PostExit whose UpdateTicket fails, at the marshalling or at
\* PutItem, answers 500 "Failed to update ticket" with no minutes, no
\* charge and nothing of the ticket, and in that step as in the steps
\* before it the table stays as it is.
C26_FailedSettlementChangesNothing ==
    [][\A w \in Workers :
          /\ (ExitResponds(w) /\ pc[w] \in {"exit_charge", "exit_put"}
                 /\ resp'[w].status /= 200) =>
                 /\ resp'[w].status = 500
                 /\ resp'[w].message = "Failed to update ticket"
                 /\ resp'[w].minutes = 0
                 /\ resp'[w].charge = 0
                 /\ resp'[w].plate = ""
                 /\ resp'[w].parkingLot = 0
                 /\ store' = store
          /\ (pc[w] \in {"exit_get", "exit_charge"} /\ pc'[w] /= pc[w]) =>
                 store' = store]_vars

C26_Witness ==
    \E w, v \in Workers :
        /\ resp[w].status = 500 /\ ret[w].found
        /\ attempts[w].writes = 0
        /\ resp[v].status = 500 /\ ret[v].found
        /\ attempts[v].writes = 1
        /\ req[w].ticketID = req[v].ticketID
        /\ DurLess(resp[w].found.EntryTime, resp[w].at)
        /\ DurLess(resp[v].found.EntryTime, resp[v].at)
        /\ req[w].ticketID \in DOMAIN store
        /\ Record(store, req[w].ticketID).Status /= TicketStatusOut
        /\ Record(store, req[w].ticketID).Charge = 0

\* C27: on the service NewAPIAdapter falls back to, a proxied entry is
\* answered 200 by the handler itself, without a panic for gin.Recovery to
\* catch.
C27_FallbackServiceWorks ==
    (proxy.served /\ ~proxy.panicked /\ client = ZeroValueService
         /\ proxy.route = "PostEntry") =>
        (~proxy.recovered /\ proxy.response.StatusCode = 200)

\* the ticket id a step of slot w is about
OwnTicketID(w) ==
    IF pc[w] \in {"marshal", "put"} THEN local[w].ticket.TicketID
    ELSE IF pc[w] = "idle" THEN req'[w].ticketID
    ELSE req[w].ticketID

\* C28: a step of a call changes at most the record under the call's own
\* ticket id: every record under another id is there before and after the
\* step, unchanged; a step of CreateTicket changes no record that is there
\* and adds at most the one under its new id.
C28_OnlyOwnRecordAffected ==
    [][\A w \in Workers :
          pc'[w] /= pc[w] =>
              /\ \A id \in (DOMAIN store \union DOMAIN store')
                               \ {OwnTicketID(w)} :
                     /\ id \in DOMAIN store
                     /\ id \in DOMAIN store'
                     /\ store'[id] = store[id]
              /\ pc[w] \in {"marshal", "put"} =>
                     /\ \A id \in DOMAIN store :
                            id \in DOMAIN store' /\ store'[id] = store[id]
                     /\ DOMAIN store' \subseteq
                            DOMAIN store \union {OwnTicketID(w)}]_vars

C28_Witness ==
    \E w \in Workers, id \in DOMAIN store, other \in DOMAIN store :
        /\ id /= other
        /\ req[w].op = "PostExit" /\ req[w].ticketID = id
        /\ resp[w].status = 200
        /\ Record(store, id).Status = TicketStatusOut
        /\ Record(store, id).Charge = resp[w].charge
        /\ resp[w].charge > 0
        /\ store[other] = MarshalMap(written[other])

\* C29: CalculateCharge never returns a negative charge: for an entry time
\* later than the clock it returns 0 minutes and charge 0, and every charge
\* is a whole number of 2.50 increments, none or more.
C29_ChargeNeverNegative ==
    probe.evaluated =>
        /\ probe.charge >= 0
        /\ probe.charge % 250 = 0
        /\ DurLess(probe.elapsed, ZeroDur) =>
               (probe.minutes = 0 /\ probe.charge = 0)

C29_Witness ==
    /\ probe.evaluated
    /\ prevProbe.evaluated
    /\ DurLess(probe.elapsed, ZeroDur)
    /\ probe.minutes = 0 /\ probe.charge = 0
    /\ prevProbe.charge = 250 * MaxIncrements

====
